---- MODULE Spec2Model ----
(***************************************************************************)
(* A model of the FRI commit / fold / query engine of plonky2 (bmzig).     *)
(*                                                                         *)
(* Field elements are canonical representatives 0..MODULUS-1 of a prime    *)
(* field.  The two field instances of the crate are scaled down to small   *)
(* primes that keep the 2-adic structure the code depends on:              *)
(*   Goldilocks  2^64 - 2^32 + 1, S = 32, declared generator 3.  3 is a    *)
(*               square modulo that prime, so the derived ROOT_OF_UNITY    *)
(*               = 3^((p-1)/2^S) has order 2^(S-1), not 2^S.  Scaled:      *)
(*               p = 1153, S = 7, generator 3, ROOT_OF_UNITY of order 2^6. *)
(*   Fp          2^251 + 17 * 2^192 + 1, S = 192, generator 3, a true      *)
(*               generator: ROOT_OF_UNITY has order 2^S.  Scaled:          *)
(*               p = 641, S = 7, generator 3, ROOT_OF_UNITY of order 2^7.  *)
(*                                                                         *)
(* A BLAKE3 digest is a term: the hash is collision free, so a digest is   *)
(* determined by, and determines, what was hashed.  Its reading as a       *)
(* big-endian integer is a fixed mixing function of the term.              *)
(***************************************************************************)
EXTENDS Integers, Sequences, FiniteSets, TLC

VARIABLES
    field,          \* the PrimeField instance F the generic code runs with
    pc,             \* position of the run
    f_x,            \* evaluation_proof: the polynomial f_x
    r,              \* evaluation_proof: the optional point, <<>> is None
    w_x,            \* the witness polynomial w_x
    w_commitment,   \* w_x.commitment()
    fold,           \* (commitment_vector, polynomial_vector) of fold_full
    rho,            \* random_root_of_unity
    boundary,       \* positive / negative evaluations and paths
    chain,          \* auth_vec and query_vec
    proof,          \* the FriProof handed to verify
    edit,           \* what was changed in the proof after packaging
    verdict,        \* what verify / query_check returned
    overflow_checks, \* the build: integer overflow panics (TRUE) or wraps (FALSE)
    operand,        \* polynomial layer: the polynomial or buffer a method is called on
    other,          \* polynomial layer: the second polynomial of a binary operation
    argument,       \* polynomial layer: the field element passed (a point, or omega)
    returned        \* polynomial layer: what the call returned

vars == <<field, pc, f_x, r, w_x, w_commitment, fold, rho, boundary, chain,
          proof, edit, verdict, overflow_checks, operand, other, argument, returned>>

(***************************************************************************)
(* Bounds of the model.                                                    *)
(***************************************************************************)
\* polynomials have 2^k coefficients, k <= MaxLogLen
MaxLogLen == 3
\* coefficients are drawn from -MaxCoeff..MaxCoeff, at most MaxTerms non-zero
MaxCoeff == 1
MaxTerms == 2
\* the second operand of a binary operation has 2^k coefficients, k <= MaxLogOther
MaxLogOther == 2
\* a domain is requested for the sizes 0..2^MaxLogSize + 1
MaxLogSize == 8
\* a digest is the hash of two values in 0..MaxDigestPart
MaxDigestPart == 5

(***************************************************************************)
(* Program constants (constants.rs).                                       *)
(***************************************************************************)
FRI_BLOWUP_FACTOR == 8
FRI_BLOWUP_LOG == 3

(***************************************************************************)
(* The field instances.                                                    *)
(***************************************************************************)
Goldilocks == [name |-> "Goldilocks", MODULUS |-> 1153, S |-> 7, GENERATOR |-> 3]
Fp == [name |-> "Fp", MODULUS |-> 641, S |-> 7, GENERATOR |-> 3]

MODULUS == field.MODULUS
S == field.S

ZERO == 0
ONE == 1 % MODULUS

add(a, b) == (a + b) % MODULUS
sub(a, b) == (a + MODULUS - b) % MODULUS
mul(a, b) == (a * b) % MODULUS
neg(a) == (MODULUS - a) % MODULUS
square(a) == (a * a) % MODULUS
from(n) == n % MODULUS

RECURSIVE pow(_, _)
pow(x, e) ==
    IF e = 0 THEN ONE
    ELSE LET h == pow(x, e \div 2)
         IN  IF e % 2 = 0 THEN square(h) ELSE mul(square(h), x)

\* invert() of a non-zero element (Fermat); of zero it is None
invert(x) == pow(x, MODULUS - 2)

RECURSIVE Pow2(_)
Pow2(k) == IF k = 0 THEN 1 ELSE 2 * Pow2(k - 1)

\* ff_derive: ROOT_OF_UNITY = GENERATOR^t with t = (MODULUS - 1) >> S
ROOT_OF_UNITY == pow(field.GENERATOR, (MODULUS - 1) \div Pow2(S))

(***************************************************************************)
(* usize helpers.                                                          *)
(***************************************************************************)
RECURSIVE next_power_of_two(_)
next_power_of_two(n) ==
    IF n <= 1 THEN 1 ELSE 2 * next_power_of_two((n + 1) \div 2)

is_power_of_two(n) == n >= 1 /\ next_power_of_two(n) = n

\* the loop  while y != 1 { y >>= 1; x += 1 }  for y >= 1
RECURSIVE ShiftCount(_)
ShiftCount(y) == IF y <= 1 THEN 0 ELSE 1 + ShiftCount(y \div 2)

\* usize::trailing_zeros of n >= 1
RECURSIVE trailing_zeros(_)
trailing_zeros(n) == IF n % 2 = 1 THEN 0 ELSE 1 + trailing_zeros(n \div 2)

RECURSIVE Repeat(_, _)
Repeat(x, n) == IF n = 0 THEN <<>> ELSE <<x>> \o Repeat(x, n - 1)

Min(set) == CHOOSE x \in set : \A y \in set : x <= y

\* a Vec: the function f on 1..n held as the sequence of its values
Vec(f) == <<>> \o f

(***************************************************************************)
(* BLAKE3.  HashLeaf is the digest of two field elements' canonical        *)
(* encodings, HashNode the digest of two digests.                          *)
(***************************************************************************)
HashLeaf(a, b) == <<0, a, b>>
HashNode(l, h) == <<1, l, h>>

\* U256::from_big_endian(digest): the digest read as an integer
RECURSIVE HashInt(_)
HashInt(h) ==
    IF h[1] = 0
    THEN (7 + 31 * h[2] + 131 * h[3] + (h[2] % 13) * (h[3] % 17)) % 65536
    ELSE LET a == HashInt(h[2])
             b == HashInt(h[3])
         IN  (11 + 37 * a + 101 * b + (a % 251) * (b % 241)) % 65536

(***************************************************************************)
(* A call that panics (or, built without overflow checks, never returns)   *)
(* yields Aborted; a call that returns yields a record with ok = TRUE.     *)
(***************************************************************************)
Aborted == [ok |-> FALSE]

(***************************************************************************)
(* domains/mod.rs                                                          *)
(***************************************************************************)
RECURSIVE SquareTimes(_, _)
SquareTimes(g, n) == IF n <= 0 THEN g ELSE SquareTimes(square(g), n - 1)

root_with_order_unchecked(order) ==
    LET log_n == ShiftCount(next_power_of_two(order))
    IN  SquareTimes(ROOT_OF_UNITY, (S - 1) - log_n)

\* the generator squared once less than new_for_size squares it
new_for_size_one_short(size) ==
    LET power_of_two == ShiftCount(next_power_of_two(size))
    IN  IF power_of_two > S THEN Aborted
        ELSE [ok |-> TRUE, size |-> next_power_of_two(size),
              power_of_two |-> power_of_two,
              generator |-> SquareTimes(ROOT_OF_UNITY, S - power_of_two - 1)]

\* the size limit left out
new_for_size_unlimited(size) ==
    LET power_of_two == ShiftCount(next_power_of_two(size))
    IN  [ok |-> TRUE, size |-> next_power_of_two(size),
         power_of_two |-> power_of_two,
         generator |-> SquareTimes(ROOT_OF_UNITY, S - power_of_two)]

\* Err(SynthesisError) is Aborted; the callers unwrap
new_for_size(size) ==
    LET power_of_two == ShiftCount(next_power_of_two(size))
    IN  IF power_of_two > S THEN Aborted
        ELSE [ok |-> TRUE, size |-> next_power_of_two(size),
              power_of_two |-> power_of_two,
              generator |-> SquareTimes(ROOT_OF_UNITY, S - power_of_two)]

(***************************************************************************)
(* fft/serial.rs                                                           *)
(***************************************************************************)
RECURSIVE bitreverse_loop(_, _, _)
bitreverse_loop(n, l, acc) ==
    IF l = 0 THEN acc
    ELSE bitreverse_loop(n \div 2, l - 1, 2 * acc + (n % 2))

\* the permutation left out: every index is its own image
bitreverse_none(n, l) == n

bitreverse(n, l) == bitreverse_loop(n, l, 0)

\* one pass of the butterfly loop for block half-size m over the whole buffer
Butterfly(a, omega, n, m) ==
    LET w_m == pow(omega, n \div (2 * m))
    IN  Vec([i \in 1..n |->
            LET idx == i - 1
                j == idx % m
                lower == (idx % (2 * m)) < m
                lo == IF lower THEN idx ELSE idx - m
                t == mul(a[lo + m + 1], pow(w_m, j))
            IN  IF lower THEN add(a[lo + 1], t) ELSE sub(a[lo + 1], t)])

RECURSIVE Stages(_, _, _, _)
Stages(a, omega, n, m) ==
    IF m >= n THEN a ELSE Stages(Butterfly(a, omega, n, m), omega, n, 2 * m)

\* serial_fft(a, omega, log_n); the caller's buffer has length 1 << log_n
serial_fft(a, omega, log_n) ==
    LET n == Len(a)
        swapped == Vec([k \in 1..n |-> a[bitreverse(k - 1, log_n) + 1]])
    IN  Stages(swapped, omega, n, 1)

\* the inverse transform without the scaling by the inverse of the length
serial_ifft_unscaled(s, omega, log_n) == serial_fft(s, invert(omega), log_n)

serial_ifft(s, omega, log_n) ==
    LET invlen == invert(from(Len(s)))
        t == serial_fft(s, invert(omega), log_n)
    IN  Vec([i \in 1..Len(t) |-> mul(t[i], invlen)])

(***************************************************************************)
(* polynomial/mod.rs: a polynomial is its coefficient vector               *)
(***************************************************************************)
log_n_of(p) == ShiftCount(next_power_of_two(Len(p)))

\* the loop without the multiplication by the point
RECURSIVE HornerAdding(_, _, _, _)
HornerAdding(p, point, i, result) ==
    IF i = 0 THEN result
    ELSE HornerAdding(p, point, i - 1, add(result, p[i]))

RECURSIVE Horner(_, _, _, _)
Horner(p, point, i, result) ==
    IF i = 0 THEN result
    ELSE Horner(p, point, i - 1, add(mul(result, point), p[i]))

eval_single(p, point) == Horner(p, point, Len(p) - 1, p[Len(p)])

\* the loop  for i in 1..self.len() { ret += e * self.0[i]; e *= x }
RECURSIVE NaiveLoop(_, _, _, _, _)
NaiveLoop(p, x, i, e, ret) ==
    IF i > Len(p) THEN ret
    ELSE NaiveLoop(p, x, i + 1, mul(e, x), add(ret, mul(e, p[i])))

\* self.0[0] of an empty vector is out of range
eval_at_naive(p, x) ==
    IF Len(p) = 0 THEN Aborted
    ELSE [ok |-> TRUE, value |-> NaiveLoop(p, x, 2, x, p[1])]

\* the loop  for i in (0..self.len()).rev()  of pop_zeros: i is the length left
RECURSIVE PopLoop(_, _)
PopLoop(v, i) ==
    IF i = 0 THEN v
    ELSE IF v[i] = ZERO THEN PopLoop(SubSeq(v, 1, i - 1), i - 1)
    ELSE v

pad_to_base(v, new_base) ==
    LET size == Pow2(new_base)
    IN  IF ~(size > Len(v)) THEN Aborted
        ELSE [ok |-> TRUE, value |-> v \o Repeat(ZERO, size - Len(v))]

\* on an empty vector the loop  while y != 1 { y >>= 1; x += 1 }  starts from
\* y = 0 and never reaches 1
pop_zeros(p) ==
    LET popped == PopLoop(p, Len(p))
    IN  IF is_power_of_two(Len(popped)) THEN [ok |-> TRUE, value |-> popped]
        ELSE IF Len(popped) = 0 THEN Aborted
        ELSE pad_to_base(popped, ShiftCount(Len(popped)) + 1)

(***************************************************************************)
(* utils/mod.rs.  A U256 holds U256_BYTES bytes; a field element's Repr    *)
(* holds the first repr_size of them (all of them in Fp).                  *)
(***************************************************************************)
U256_BYTES == 3

repr_size == IF field.name = "Fp" THEN U256_BYTES ELSE U256_BYTES - 1

\* a little-endian Repr read as an integer (PrimeFieldReprEndianness = "little")
RECURSIVE from_little_endian(_)
from_little_endian(bytes) ==
    IF bytes = <<>> THEN 0
    ELSE Head(bytes) + 256 * from_little_endian(Tail(bytes))

\* the input read with the first byte as the least significant instead
from_big_endian_reversed(bytes) == from_little_endian(bytes)

\* U256::from_big_endian(bytes): the last byte is the least significant
RECURSIVE from_big_endian(_)
from_big_endian(bytes) ==
    IF bytes = <<>> THEN 0
    ELSE bytes[Len(bytes)] + 256 * from_big_endian(SubSeq(bytes, 1, Len(bytes) - 1))

\* U256::to_little_endian into a buffer of n bytes
RECURSIVE to_little_endian(_, _)
to_little_endian(value, n) ==
    IF n = 0 THEN <<>> ELSE <<value % 256>> \o to_little_endian(value \div 256, n - 1)

\* F::from_repr(repr).unwrap() for a little-endian Repr: None above the modulus
from_repr(repr) ==
    IF from_little_endian(repr) >= MODULUS THEN Aborted
    ELSE [ok |-> TRUE, value |-> from_little_endian(repr)]

field_element_from_bytes(bytes) ==
    LET parsed_bytes == to_little_endian(from_big_endian(bytes) % MODULUS, U256_BYTES)
        copy == SubSeq(parsed_bytes, 1, repr_size)
    IN  from_repr(copy)

(***************************************************************************)
(* fri/commitment.rs                                                       *)
(***************************************************************************)
LeafHashes(ev) ==
    Vec([i \in 1..(Len(ev) \div 2) |-> HashLeaf(ev[2 * i - 1], ev[2 * i])])

Compress(hv) ==
    Vec([i \in 1..(Len(hv) \div 2) |-> HashNode(hv[2 * i - 1], hv[2 * i])])

RECURSIVE CompressTimes(_, _)
CompressTimes(hv, n) == IF n = 0 THEN hv ELSE CompressTimes(Compress(hv), n - 1)

\* the blown-up evaluation vector both commitment and authentication_path_for build
BlownUp(p) ==
    LET log_n == ShiftCount(Len(p))
        ext == log_n + FRI_BLOWUP_LOG
        omega == root_with_order_unchecked(FRI_BLOWUP_FACTOR * Len(p))
    IN  serial_fft(p \o Repeat(ZERO, Pow2(ext) - Pow2(log_n)), omega, ext)

commitment(p) ==
    LET ext == ShiftCount(Len(p)) + FRI_BLOWUP_LOG
    IN  CompressTimes(LeafHashes(BlownUp(p)), ext - 1)[1]

interpret_as_element(com) == HashInt(com) % MODULUS

\* the exponent is the low bits of the digest
interpret_as_root_of_unity(com, domain_size) ==
    pow(root_with_order_unchecked(domain_size), HashInt(com) % 256)

(***************************************************************************)
(* polynomial/arithmetic.rs                                                *)
(***************************************************************************)
sub_constant(p, w) == [p EXCEPT ![1] = sub(p[1], w)]

RECURSIVE StripZeros(_)
StripZeros(v) ==
    IF Len(v) > 0 /\ v[Len(v)] = ZERO THEN StripZeros(SubSeq(v, 1, Len(v) - 1)) ELSE v

\* the loop with the subtraction of c * divisor from the remainder left out
RECURSIVE DivLoopNoSubtract(_, _, _)
DivLoopNoSubtract(quotient, remainder, divisor) ==
    IF Len(remainder) < Len(divisor) THEN [quotient |-> quotient, remainder |-> remainder]
    ELSE LET i == Len(remainder) - Len(divisor)
             c == mul(remainder[Len(remainder)], invert(divisor[Len(divisor)]))
         IN  DivLoopNoSubtract([quotient EXCEPT ![i + 1] = c],
                               SubSeq(remainder, 1, Len(remainder) - 1), divisor)

\* the loop  while remainder.len() >= divisor_len { ... remainder.pop() }
RECURSIVE DivLoop(_, _, _)
DivLoop(quotient, remainder, divisor) ==
    IF Len(remainder) < Len(divisor) THEN [quotient |-> quotient, remainder |-> remainder]
    ELSE LET i == Len(remainder) - Len(divisor)
             c == mul(remainder[Len(remainder)], invert(divisor[Len(divisor)]))
             reduced == Vec([k \in 1..Len(remainder) |->
                            IF k > i /\ k <= i + Len(divisor)
                            THEN sub(remainder[k], mul(c, divisor[k - i]))
                            ELSE remainder[k]])
         IN  DivLoop([quotient EXCEPT ![i + 1] = c],
                     SubSeq(reduced, 1, Len(reduced) - 1), divisor)

\* dividend.len() - divisor_len + 1 in usize: when the dividend is shorter the
\* subtraction panics with overflow checks; without them it wraps, to 0 when the
\* dividend is one short and else to a length no vector can have (a panic)
long_division(dividend, divisor_poly) ==
    LET divisor == StripZeros(divisor_poly)
        short == Len(dividend) < Len(divisor)
    IN  IF Len(divisor) = 0 THEN Aborted
        ELSE IF short /\ (overflow_checks \/ Len(dividend) + 1 < Len(divisor))
        THEN Aborted
        ELSE LET quotient_len == IF short THEN 0
                                 ELSE Len(dividend) - Len(divisor) + 1
                 res == DivLoop(Repeat(ZERO, quotient_len), dividend, divisor)
                 q == res.quotient
                 padded == IF is_power_of_two(Len(q)) THEN q
                           ELSE q \o Repeat(ZERO, next_power_of_two(Len(q)) - Len(q))
             IN  [ok |-> TRUE, quotient |-> padded, remainder |-> StripZeros(res.remainder)]

\* Mul for Polynomial
polynomial_mul(self, rhs) ==
    LET log_n == log_n_of(self) + log_n_of(rhs)
        new_size == Pow2(log_n)
        resized_one == self \o Repeat(ZERO, new_size - Len(self))
        resized_two == rhs \o Repeat(ZERO, new_size - Len(rhs))
        domain == new_for_size(new_size)
    IN  IF ~domain.ok THEN Aborted
        ELSE LET omega == domain.generator
                 one == serial_fft(resized_one, omega, log_n)
                 two == serial_fft(resized_two, omega, log_n)
                 fourier == Vec([i \in 1..new_size |-> mul(one[i], two[i])])
             IN  [ok |-> TRUE, value |-> serial_ifft(fourier, omega, log_n)]

\* the transform is taken over dividend_len points with the generator of the
\* domain of size dividend_len * log_n
divide_fft(self, rhs) ==
    LET dividend_len == Len(self)
        log_n == trailing_zeros(dividend_len)
        kth_roots == dividend_len * log_n
        evaluation_domain == new_for_size(kth_roots)
    IN  IF Len(rhs) > dividend_len \/ dividend_len = 0 THEN Aborted
        ELSE IF ~is_power_of_two(kth_roots) THEN Aborted
        ELSE IF ~evaluation_domain.ok THEN Aborted
        ELSE LET omega == evaluation_domain.generator
                 divisor == rhs \o Repeat(ZERO, dividend_len - Len(rhs))
                 num == serial_fft(self, omega, log_n)
                 den == serial_fft(divisor, omega, log_n)
             IN  IF \E i \in 1..dividend_len : den[i] = ZERO THEN Aborted
                 ELSE [ok |-> TRUE,
                       value |-> StripZeros(serial_ifft(
                           Vec([i \in 1..dividend_len |-> mul(num[i], invert(den[i]))]),
                           omega, log_n))]

(***************************************************************************)
(* fri/mod.rs                                                              *)
(***************************************************************************)
shift_polynomial(p, x) ==
    LET eval == eval_single(p, x)
        numerator == sub_constant(p, eval)
        denominator == <<sub(ZERO, x), ONE>>
    IN  long_division(numerator, denominator)

(***************************************************************************)
(* fri/fold.rs: fold_full                                                  *)
(***************************************************************************)
\* the fold with the two coefficients of a pair exchanged
FoldOnceSwapped(p, alpha) ==
    Vec([i \in 1..(Len(p) \div 2) |-> add(p[2 * i], mul(p[2 * i - 1], alpha))])

\* folded[i] = coefficient_at(2i) + coefficient_at(2i+1) * r
FoldOnce(p, alpha) ==
    Vec([i \in 1..(Len(p) \div 2) |-> add(p[2 * i - 1], mul(p[2 * i], alpha))])

\* the loop  for _i in 0..(log_n-1)  and the two pushes after it
RECURSIVE FoldLoop(_, _, _, _)
FoldLoop(left, intermediate, cv, pv) ==
    IF left = 0
    THEN [ok |-> TRUE,
          commitment_vector |-> Append(cv, commitment(intermediate)),
          polynomial_vector |-> Append(pv, intermediate)]
    ELSE LET com == commitment(intermediate)
         IN  FoldLoop(left - 1, FoldOnce(intermediate, interpret_as_element(com)),
                      Append(cv, com), Append(pv, intermediate))

\* fold_full that pushes the polynomial itself as the first layer
fold_full_from_input(p) ==
    IF Len(p) < 2 THEN Aborted ELSE FoldLoop(ShiftCount(Len(p)) - 1, p, <<>>, <<>>)

\* a polynomial of length 1 has log_n = 0: log_n - 1 underflows (a panic with
\* overflow checks; without them the loop runs on and commits to an empty
\* polynomial, whose log2 loop never ends)
fold_full(p) ==
    IF Len(p) < 2 THEN Aborted
    ELSE FoldLoop(ShiftCount(Len(p)) - 1,
                  FoldOnce(p, interpret_as_element(commitment(p))), <<>>, <<>>)

(***************************************************************************)
(* fri/authentication.rs                                                   *)
(***************************************************************************)
AuthenticationHash(hash, is_first) == [hash |-> hash, is_first |-> is_first]

AuthenticationPath(first, second, path) ==
    [first_evaluation |-> first, second_evaluation |-> second, authentication_path |-> path]

\* the loop with the sibling of the topmost level left out of the hash
RECURSIVE DeriveLoopBelowTop(_, _, _)
DeriveLoopBelowTop(path, i, target) ==
    IF i >= Len(path) THEN target
    ELSE DeriveLoopBelowTop(path, i + 1,
                            IF path[i].is_first THEN HashNode(path[i].hash, target)
                            ELSE HashNode(target, path[i].hash))

RECURSIVE DeriveLoop(_, _, _)
DeriveLoop(path, i, target) ==
    IF i > Len(path) THEN target
    ELSE DeriveLoop(path, i + 1,
                    IF path[i].is_first THEN HashNode(path[i].hash, target)
                    ELSE HashNode(target, path[i].hash))

derive_root(ap) ==
    DeriveLoop(ap.authentication_path, 1,
               HashLeaf(ap.first_evaluation, ap.second_evaluation))

contains_evaluation(ap, evaluation) ==
    (ap.first_evaluation = evaluation) \/ (ap.second_evaluation = evaluation)

RemoveAt(v, i) == SubSeq(v, 1, i) \o SubSeq(v, i + 2, Len(v))

\* the loop  for _i in 0..(log_n-2);  index is 0-based as in the code
RECURSIVE PathLoop(_, _, _, _)
PathLoop(left, hash_vec, index, authentication_vec) ==
    IF left = 0
    THEN Append(authentication_vec, AuthenticationHash(hash_vec[1], index # 0))
    ELSE LET at == IF index % 2 = 0 THEN index ELSE index - 1
             sibling == AuthenticationHash(hash_vec[at + 1], index % 2 # 0)
         IN  PathLoop(left - 1, Compress(RemoveAt(hash_vec, at)), index \div 2,
                      Append(authentication_vec, sibling))

authentication_path_for(p, root) ==
    IF Len(p) < 2 THEN Aborted
    ELSE
    LET target == eval_single(p, root)
        log_n == log_n_of(p) + FRI_BLOWUP_LOG
        evaluations == BlownUp(p)
        pairs == Len(evaluations) \div 2
        found == {j \in 0..(pairs - 1) :
                     evaluations[2 * j + 1] = target \/ evaluations[2 * j + 2] = target}
    IN  IF found = {} THEN Aborted
        ELSE LET index == Min(found)
                 all == LeafHashes(evaluations)
                 hash_vec == RemoveAt(all, index)
             IN  [ok |-> TRUE,
                  path |-> AuthenticationPath(evaluations[2 * index + 1],
                                              evaluations[2 * index + 2],
                                              PathLoop(log_n - 2, hash_vec, index, <<>>))]

(***************************************************************************)
(* fri/fold.rs: query_check                                                *)
(***************************************************************************)
FriChallenge(pe, ne, pp, np, av, fq, cv) ==
    [positive_evaluation |-> pe, negative_evaluation |-> ne,
     positive_authentication_path |-> pp, negative_authentication_path |-> np,
     authentication_vector |-> av, fold_queries |-> fq, commitment_vector |-> cv]

\* the step with the odd part divided by target instead of 2 * target
AssembleOddByTarget(alpha, plus, minus, target) ==
    LET even == mul(add(plus, minus), invert(from(2)))
        odd == mul(sub(plus, minus), invert(target))
    IN  add(even, mul(alpha, odd))

\* even + alpha * odd of query_check, for the boundary pair and for each fold query
Assemble(alpha, plus, minus, target) ==
    LET even == mul(add(plus, minus), invert(from(2)))
        odd == mul(sub(plus, minus), invert(mul(from(2), target)))
    IN  add(even, mul(alpha, odd))

\* the loop  for i in 0..self.fold_queries().len();  i is 1-based here
RECURSIVE QueryLoop(_, _, _, _)
QueryLoop(ch, i, assembled, target) ==
    IF i > Len(ch.fold_queries) THEN [ok |-> TRUE, assembled |-> assembled]
    ELSE IF i > Len(ch.commitment_vector) THEN Aborted
    ELSE QueryLoop(ch, i + 1,
                   Assemble(interpret_as_element(ch.commitment_vector[i]),
                            assembled, ch.fold_queries[i], target),
                   square(target))

\* one pass of the in-place compression: evals[c] = H(evals[i] || evals[i+1])
\* for i = 0, 2, ... and c = 0, 1, ... over the whole array (c is 0-based here)
RECURSIVE CompressInPlace(_, _)
CompressInPlace(evals, c) ==
    IF 2 * c >= Len(evals) THEN evals
    ELSE CompressInPlace(
             [evals EXCEPT ![c + 1] = HashNode(evals[2 * c + 1], evals[2 * c + 2])],
             c + 1)

RECURSIVE CompressInPlaceTimes(_, _)
CompressInPlaceTimes(evals, n) ==
    IF n = 0 THEN evals ELSE CompressInPlaceTimes(CompressInPlace(evals, 0), n - 1)

\* the tree compressed through one level less
ConstantTreeOneLevelShort(assembled) ==
    CompressInPlaceTimes(Repeat(HashLeaf(assembled, assembled), FRI_BLOWUP_FACTOR \div 2),
                         FRI_BLOWUP_LOG - 2)[1]

\* FRI_BLOWUP_FACTOR/2 equal leaf hashes compressed in place FRI_BLOWUP_LOG-1
\* times; the digest is evals[0]
ConstantTree(assembled) ==
    CompressInPlaceTimes(Repeat(HashLeaf(assembled, assembled), FRI_BLOWUP_FACTOR \div 2),
                         FRI_BLOWUP_LOG - 1)[1]

query_check(ch, top_commitment, random_root_of_unity) ==
    LET first == Assemble(interpret_as_element(top_commitment),
                          ch.positive_evaluation, ch.negative_evaluation,
                          random_root_of_unity)
        res == QueryLoop(ch, 1, first, square(random_root_of_unity))
    IN  IF random_root_of_unity = ZERO \/ ~res.ok THEN Aborted
        ELSE [ok |-> TRUE, value |-> ConstantTree(res.assembled)]

(***************************************************************************)
(* fri/proof.rs                                                            *)
(***************************************************************************)
FriProof(w_com, fri_challenge) == [w_com |-> w_com, fri_challenge |-> fri_challenge]

\* for i in 0..authentication_paths().len(): contains_evaluation(fold_queries()[i])
RECURSIVE MembershipLoop(_, _)
MembershipLoop(ch, i) ==
    IF i > Len(ch.authentication_vector) THEN "pass"
    ELSE IF i > Len(ch.fold_queries) THEN "Abort"
    ELSE IF ~contains_evaluation(ch.authentication_vector[i], ch.fold_queries[i])
         THEN "InvalidProof"
    ELSE MembershipLoop(ch, i + 1)

\* the loop with the comparison of the derived roots left out
RootLoopUnchecked(ch, i) ==
    IF Len(ch.authentication_vector) > Len(ch.commitment_vector) THEN "Abort" ELSE "pass"

\* for i in 0..authentication_paths().len(): derive_root() != commitment_vector()[i]
RECURSIVE RootLoop(_, _)
RootLoop(ch, i) ==
    IF i > Len(ch.authentication_vector) THEN "pass"
    ELSE IF i > Len(ch.commitment_vector) THEN "Abort"
    ELSE IF derive_root(ch.authentication_vector[i]) # ch.commitment_vector[i]
         THEN "InvalidProof"
    ELSE RootLoop(ch, i + 1)

FoldCheck(pf) ==
    LET ch == pf.fri_challenge
        cv == ch.commitment_vector
    IN  IF Len(cv) = 0 THEN "Abort"
        ELSE LET last == cv[Len(cv)]
                 should_be_root ==
                     interpret_as_root_of_unity(last, Pow2(Len(cv) + FRI_BLOWUP_LOG))
                 should_be_constant_function == query_check(ch, pf.w_com, should_be_root)
             IN  IF ~should_be_constant_function.ok THEN "Abort"
                 ELSE IF should_be_constant_function.value # last THEN "InvalidProof"
                 ELSE "ValidProof"

verify(pf) ==
    LET ch == pf.fri_challenge
    IN  IF ~contains_evaluation(ch.positive_authentication_path, ch.positive_evaluation)
        THEN "InvalidProof"
        ELSE IF ~contains_evaluation(ch.negative_authentication_path, ch.negative_evaluation)
        THEN "InvalidProof"
        ELSE IF MembershipLoop(ch, 1) # "pass" THEN MembershipLoop(ch, 1)
        ELSE IF pf.w_com # derive_root(ch.positive_authentication_path) THEN "InvalidProof"
        ELSE IF pf.w_com # derive_root(ch.negative_authentication_path) THEN "InvalidProof"
        ELSE IF RootLoop(ch, 1) # "pass" THEN RootLoop(ch, 1)
        ELSE FoldCheck(pf)


(***************************************************************************)
(* Inputs.                                                                 *)
(***************************************************************************)
Coeffs == {ZERO} \cup {from(c) : c \in 1..MaxCoeff} \cup {neg(from(c)) : c \in 1..MaxCoeff}

Terms(v) == Cardinality({i \in DOMAIN v : v[i] # ZERO})

\* coefficient vectors of length n with at least least and at most MaxTerms terms
PolysOfLen(n, least) == {v \in [1..n -> Coeffs] : Terms(v) >= least /\ Terms(v) <= MaxTerms}

\* Option<F>: None is <<>>, Some(x) is <<x>>
Points == {<<>>} \cup {<<x>> : x \in Coeffs}

None == <<>>
NoEdit == [kind |-> "none"]

(***************************************************************************)
(* FriProof::evaluation_proof, one action per phase of the prover.         *)
(***************************************************************************)
Init ==
    /\ field \in {Goldilocks, Fp}
    /\ pc = "Initial"
    /\ f_x \in UNION {PolysOfLen(Pow2(k), 1) : k \in 1..MaxLogLen}
    /\ r \in Points
    /\ w_x = None /\ w_commitment = None /\ fold = None /\ rho = None
    /\ boundary = None /\ chain = None /\ proof = None
    /\ edit = NoEdit /\ verdict = "none"
    /\ overflow_checks \in BOOLEAN
    /\ operand = None /\ other = None /\ argument = None /\ returned = None

\* proof.rs 22-26: w_x and its commitment
Shift ==
    /\ pc = "Initial"
    /\ LET x == IF r = None THEN interpret_as_element(commitment(f_x)) ELSE r[1]
           res == shift_polynomial(f_x, x)
       IN  IF res.ok
           THEN /\ w_x' = res.quotient
                /\ w_commitment' = commitment(res.quotient)
                /\ pc' = "Shifted"
           ELSE /\ pc' = "Aborted"
                /\ UNCHANGED <<w_x, w_commitment>>
    /\ UNCHANGED <<overflow_checks, operand, other, argument, returned,
                   field, f_x, r, fold, rho, boundary, chain, proof, edit, verdict>>

\* proof.rs 30: the commitment chain
Fold ==
    /\ pc = "Shifted"
    /\ LET res == fold_full(w_x)
       IN  IF res.ok
           THEN fold' = res /\ pc' = "Folded"
           ELSE pc' = "Aborted" /\ UNCHANGED fold
    /\ UNCHANGED <<overflow_checks, operand, other, argument, returned,
                   field, f_x, r, w_x, w_commitment, rho, boundary, chain, proof,
                   edit, verdict>>

\* proof.rs 34-43: the query root and the two boundary queries
QueryBoundary ==
    /\ pc = "Folded"
    /\ LET cv == fold.commitment_vector
           root == interpret_as_root_of_unity(cv[Len(cv)],
                       next_power_of_two(Len(f_x)) * FRI_BLOWUP_FACTOR)
           pp == authentication_path_for(w_x, root)
           np == authentication_path_for(w_x, neg(root))
       IN  /\ rho' = root
           /\ IF pp.ok /\ np.ok
              THEN /\ boundary' = [positive_authentication_path |-> pp.path,
                                   negative_authentication_path |-> np.path,
                                   positive_evaluation |-> eval_single(w_x, root),
                                   negative_evaluation |-> eval_single(w_x, neg(root))]
                   /\ pc' = "QueriedBoundary"
              ELSE pc' = "Aborted" /\ UNCHANGED boundary
    /\ UNCHANGED <<overflow_checks, operand, other, argument, returned,
                   field, f_x, r, w_x, w_commitment, fold, chain, proof, edit, verdict>>

\* the loop of proof.rs 49-54 over polynomial_vector without its last entry
RECURSIVE ChainLoop(_, _, _, _, _)
ChainLoop(pv, i, target, auth_vec, query_vec) ==
    IF i >= Len(pv) THEN [ok |-> TRUE, auth_vec |-> auth_vec, query_vec |-> query_vec]
    ELSE LET ap == authentication_path_for(pv[i], neg(target))
         IN  IF ~ap.ok THEN Aborted
             ELSE ChainLoop(pv, i + 1, square(target), Append(auth_vec, ap.path),
                            Append(query_vec, eval_single(pv[i], neg(target))))

QueryChain ==
    /\ pc = "QueriedBoundary"
    /\ LET res == ChainLoop(fold.polynomial_vector, 1, square(rho), <<>>, <<>>)
       IN  IF res.ok
           THEN chain' = res /\ pc' = "QueriedChain"
           ELSE pc' = "Aborted" /\ UNCHANGED chain
    /\ UNCHANGED <<overflow_checks, operand, other, argument, returned,
                   field, f_x, r, w_x, w_commitment, fold, rho, boundary, proof,
                   edit, verdict>>

\* proof.rs 56-66
Package ==
    /\ pc = "QueriedChain"
    /\ proof' = FriProof(w_commitment,
                    FriChallenge(boundary.positive_evaluation, boundary.negative_evaluation,
                                 boundary.positive_authentication_path,
                                 boundary.negative_authentication_path,
                                 chain.auth_vec, chain.query_vec, fold.commitment_vector))
    /\ pc' = "Packaged"
    /\ UNCHANGED <<overflow_checks, operand, other, argument, returned,
                   field, f_x, r, w_x, w_commitment, fold, rho, boundary, chain,
                   edit, verdict>>

evaluation_proof == Shift \/ Fold \/ QueryBoundary \/ QueryChain \/ Package

\* one run of evaluation_proof by itself; each phase is enabled by pc alone, so
\* the run has stopped exactly when pc is Packaged or Aborted
SpecProver == Init /\ [][evaluation_proof]_vars

(***************************************************************************)
(* What a holder of the proof can do to it before it is verified.  All     *)
(* fields of FriProof and FriChallenge can be set through the public       *)
(* constructors.  Path 0 is the positive path, path -1 the negative one,   *)
(* path i >= 1 is authentication_vector[i].                                *)
(***************************************************************************)
PathIds(pf) == {0 - 1, 0} \cup (1..Len(pf.fri_challenge.authentication_vector))

GetPath(pf, id) ==
    IF id = 0 THEN pf.fri_challenge.positive_authentication_path
    ELSE IF id < 0 THEN pf.fri_challenge.negative_authentication_path
    ELSE pf.fri_challenge.authentication_vector[id]

SetPath(pf, id, ap) ==
    IF id = 0 THEN [pf EXCEPT !.fri_challenge.positive_authentication_path = ap]
    ELSE IF id < 0 THEN [pf EXCEPT !.fri_challenge.negative_authentication_path = ap]
    ELSE [pf EXCEPT !.fri_challenge.authentication_vector[id] = ap]

GetEvaluation(pf, id) ==
    IF id = 0 THEN pf.fri_challenge.positive_evaluation
    ELSE IF id < 0 THEN pf.fri_challenge.negative_evaluation
    ELSE pf.fri_challenge.fold_queries[id]

SetEvaluation(pf, id, v) ==
    IF id = 0 THEN [pf EXCEPT !.fri_challenge.positive_evaluation = v]
    ELSE IF id < 0 THEN [pf EXCEPT !.fri_challenge.negative_evaluation = v]
    ELSE [pf EXCEPT !.fri_challenge.fold_queries[id] = v]

\* a digest different from h
OtherDigest(h) == HashNode(h, h)

Edited(kind, id, pf) ==
    /\ pf # proof
    /\ proof' = pf
    /\ edit' = [kind |-> kind, id |-> id]

\* exactly one field of the proof is given a different value
Tamper ==
    /\ pc = "Packaged" /\ edit = NoEdit
    /\ \/ Edited("w_commitment", 0, [proof EXCEPT !.w_com = OtherDigest(@)])
       \/ \E id \in {i \in PathIds(proof) : i <= Len(proof.fri_challenge.fold_queries)} :
            \E v \in {add(GetEvaluation(proof, id), ONE),
                      GetPath(proof, id).first_evaluation,
                      GetPath(proof, id).second_evaluation} :
                Edited("evaluation", id, SetEvaluation(proof, id, v))
       \/ \E id \in PathIds(proof) :
            \/ Edited("leaf", id, SetPath(proof, id,
                   [GetPath(proof, id) EXCEPT !.first_evaluation = add(@, ONE)]))
            \/ Edited("leaf", id, SetPath(proof, id,
                   [GetPath(proof, id) EXCEPT !.second_evaluation = add(@, ONE)]))
       \/ \E id \in PathIds(proof) :
            \E lvl \in 1..Len(GetPath(proof, id).authentication_path) :
                Edited("sibling", id, SetPath(proof, id,
                    [GetPath(proof, id) EXCEPT
                        !.authentication_path[lvl].hash = OtherDigest(@)]))
    /\ UNCHANGED <<overflow_checks, operand, other, argument, returned,
                   field, pc, f_x, r, w_x, w_commitment, fold, rho, boundary, chain,
                   verdict>>

DropLast(v) == SubSeq(v, 1, Len(v) - 1)

\* other proofs FriChallenge::new accepts: a chain commitment or a side flag
\* changed, vectors shortened
Reshape ==
    /\ pc = "Packaged" /\ edit = NoEdit
    /\ LET ch == proof.fri_challenge
       IN  \/ \E i \in 1..Len(ch.commitment_vector) :
                Edited("commitment", i,
                    [proof EXCEPT !.fri_challenge.commitment_vector[i] = OtherDigest(@)])
           \/ \E id \in PathIds(proof) :
                \E lvl \in 1..Len(GetPath(proof, id).authentication_path) :
                    Edited("side", id, SetPath(proof, id,
                        [GetPath(proof, id) EXCEPT
                            !.authentication_path[lvl].is_first = ~@]))
           \/ /\ Len(ch.authentication_vector) > 0
              /\ Edited("drop_round", 0,
                    [proof EXCEPT !.fri_challenge.authentication_vector = DropLast(@),
                                  !.fri_challenge.fold_queries = DropLast(@),
                                  !.fri_challenge.commitment_vector = DropLast(@)])
           \/ /\ Len(ch.authentication_vector) > 0
              /\ Edited("drop_path", 0,
                    [proof EXCEPT !.fri_challenge.authentication_vector = DropLast(@)])
           \/ /\ Len(ch.fold_queries) > 0
              /\ Edited("drop_query", 0,
                    [proof EXCEPT !.fri_challenge.fold_queries = DropLast(@)])
           \/ Edited("drop_commitment", 0,
                    [proof EXCEPT !.fri_challenge.commitment_vector = DropLast(@)])
           \/ Edited("no_commitments", 0,
                    [proof EXCEPT !.fri_challenge.authentication_vector = <<>>,
                                  !.fri_challenge.fold_queries = <<>>,
                                  !.fri_challenge.commitment_vector = <<>>])
    /\ UNCHANGED <<overflow_checks, operand, other, argument, returned,
                   field, pc, f_x, r, w_x, w_commitment, fold, rho, boundary, chain,
                   verdict>>

\* FriProof::verify
Verify ==
    /\ pc = "Packaged"
    /\ verdict' = verify(proof)
    /\ pc' = "Verified"
    /\ UNCHANGED <<overflow_checks, operand, other, argument, returned,
                   field, f_x, r, w_x, w_commitment, fold, rho, boundary, chain,
                   proof, edit>>

Next == evaluation_proof \/ Tamper \/ Reshape \/ Verify

Spec == Init /\ [][Next]_vars

(***************************************************************************)
(* The prover's and the verifier's steps called one by one on a witness    *)
(* polynomial w_x and a query root rho, as in fri_semi_interactive_proof.  *)
(***************************************************************************)
\* the elements r with r^(8n) = 1
BlownUpDomain(n) == {x \in 1..(MODULUS - 1) : pow(x, FRI_BLOWUP_FACTOR * n) = ONE}

InitSemi ==
    /\ field \in {Goldilocks, Fp}
    /\ pc = "Start"
    /\ w_x \in UNION {PolysOfLen(Pow2(k), 0) : k \in 0..MaxLogLen}
    /\ f_x = None /\ r = None
    /\ w_commitment = None /\ fold = None /\ rho = None
    /\ boundary = None /\ chain = None /\ proof = None
    /\ edit = NoEdit /\ verdict = "none"
    /\ overflow_checks \in BOOLEAN
    /\ operand = None /\ other = None /\ argument = None /\ returned = None

\* lib.rs 83
Commit ==
    /\ pc = "Start"
    /\ w_commitment' = commitment(w_x)
    /\ pc' = "Committed"
    /\ UNCHANGED <<overflow_checks, operand, other, argument, returned,
                   field, f_x, r, w_x, fold, rho, boundary, chain, proof, edit, verdict>>

\* lib.rs 90
FoldFull ==
    /\ pc = "Committed"
    /\ fold' = fold_full(w_x)
    /\ pc' = IF fold'.ok THEN "Folded" ELSE "Aborted"
    /\ UNCHANGED <<overflow_checks, operand, other, argument, returned,
                   field, f_x, r, w_x, w_commitment, rho, boundary, chain, proof,
                   edit, verdict>>

\* lib.rs 93: the verifier's root of unity
DrawRoot ==
    /\ pc = "Folded"
    /\ \E x \in BlownUpDomain(Len(w_x)) : rho' = x
    /\ pc' = "Drawn"
    /\ UNCHANGED <<overflow_checks, operand, other, argument, returned,
                   field, f_x, r, w_x, w_commitment, fold, boundary, chain, proof,
                   edit, verdict>>

\* lib.rs 97: the call returns a path or aborts
Authenticate ==
    /\ pc = "Drawn"
    /\ boundary' = authentication_path_for(w_x, rho)
    /\ pc' = "Authenticated"
    /\ UNCHANGED <<overflow_checks, operand, other, argument, returned,
                   field, f_x, r, w_x, w_commitment, fold, rho, chain, proof, edit,
                   verdict>>

\* the loop of lib.rs 110-114, evaluations only
RECURSIVE QueryVec(_, _, _, _)
QueryVec(pv, i, target, query_vec) ==
    IF i >= Len(pv) THEN query_vec
    ELSE QueryVec(pv, i + 1, square(target),
                  Append(query_vec, eval_single(pv[i], neg(target))))

\* lib.rs 99-100, 106-114
Query ==
    /\ pc = "Drawn"
    /\ chain' = [positive_evaluation |-> eval_single(w_x, rho),
                 negative_evaluation |-> eval_single(w_x, neg(rho)),
                 query_vec |-> QueryVec(fold.polynomial_vector, 1, square(rho), <<>>)]
    /\ pc' = "Queried"
    /\ UNCHANGED <<overflow_checks, operand, other, argument, returned,
                   field, f_x, r, w_x, w_commitment, fold, rho, boundary, proof, edit,
                   verdict>>

\* query_check does not read the paths of the challenge
NoPath == AuthenticationPath(ZERO, ZERO, <<>>)

\* lib.rs 120-132
Check ==
    /\ pc = "Queried"
    /\ verdict' = query_check(
                      FriChallenge(chain.positive_evaluation, chain.negative_evaluation,
                                   NoPath, NoPath, <<>>, chain.query_vec,
                                   fold.commitment_vector),
                      w_commitment, rho)
    /\ pc' = "Checked"
    /\ UNCHANGED <<overflow_checks, operand, other, argument, returned,
                   field, f_x, r, w_x, w_commitment, fold, rho, boundary, chain, proof,
                   edit>>

NextSemi == Commit \/ FoldFull \/ DrawRoot \/ Authenticate \/ Query \/ Check

SpecSemi == InitSemi /\ [][NextSemi]_vars

(***************************************************************************)
(* The polynomial layer and the transform called by themselves: one call   *)
(* of one method on a polynomial, and serial_ifft on what serial_fft left. *)
(***************************************************************************)
\* the primitive N-th roots of unity
PrimitiveRoots(N) ==
    {x \in 1..(MODULUS - 1) : pow(x, N) = ONE /\ (N = 1 \/ pow(x, N \div 2) # ONE)}

Operands == UNION {PolysOfLen(Pow2(k), 0) : k \in 0..MaxLogLen}

Others == UNION {PolysOfLen(Pow2(k), 0) : k \in 0..MaxLogOther}

EvalPoints == Coeffs \cup {from(2), ROOT_OF_UNITY}

InitPoly ==
    /\ field \in {Goldilocks, Fp}
    /\ overflow_checks \in BOOLEAN
    /\ pc = "Ready"
    /\ operand \in Operands
    /\ other = None /\ argument = None /\ returned = None
    /\ f_x = None /\ r = None /\ w_x = None
    /\ w_commitment = None /\ fold = None /\ rho = None
    /\ boundary = None /\ chain = None /\ proof = None
    /\ edit = NoEdit /\ verdict = "none"

\* self.long_division(&divisor)
LongDivision ==
    /\ pc = "Ready"
    /\ \E divisor \in Others :
           /\ other' = divisor
           /\ returned' = long_division(operand, divisor)
    /\ pc' = "long_division"
    /\ UNCHANGED <<overflow_checks, operand, argument, field, f_x, r, w_x,
                   w_commitment, fold, rho, boundary, chain, proof, edit, verdict>>

\* self.shift_polynomial(r)
ShiftPolynomial ==
    /\ pc = "Ready"
    /\ \E x \in EvalPoints :
           /\ argument' = x
           /\ returned' = shift_polynomial(operand, x)
    /\ pc' = "shift_polynomial"
    /\ UNCHANGED <<overflow_checks, operand, other, field, f_x, r, w_x,
                   w_commitment, fold, rho, boundary, chain, proof, edit, verdict>>

\* self * other
Multiply ==
    /\ pc = "Ready"
    /\ \E rhs \in Others :
           /\ other' = rhs
           /\ returned' = polynomial_mul(operand, rhs)
    /\ pc' = "mul"
    /\ UNCHANGED <<overflow_checks, operand, argument, field, f_x, r, w_x,
                   w_commitment, fold, rho, boundary, chain, proof, edit, verdict>>

\* self.divide_fft(&other)
DivideFft ==
    /\ pc = "Ready"
    /\ \E rhs \in Others :
           /\ other' = rhs
           /\ returned' = divide_fft(operand, rhs)
    /\ pc' = "divide_fft"
    /\ UNCHANGED <<overflow_checks, operand, argument, field, f_x, r, w_x,
                   w_commitment, fold, rho, boundary, chain, proof, edit, verdict>>

\* self.eval_single(&point)
EvalSingle ==
    /\ pc = "Ready"
    /\ \E x \in EvalPoints :
           /\ argument' = x
           /\ returned' = eval_single(operand, x)
    /\ pc' = "eval_single"
    /\ UNCHANGED <<overflow_checks, operand, other, field, f_x, r, w_x,
                   w_commitment, fold, rho, boundary, chain, proof, edit, verdict>>

\* self.eval_at_naive(&x)
EvalAtNaive ==
    /\ pc = "Ready"
    /\ \E x \in EvalPoints :
           /\ argument' = x
           /\ returned' = eval_at_naive(operand, x)
    /\ pc' = "eval_at_naive"
    /\ UNCHANGED <<overflow_checks, operand, other, field, f_x, r, w_x,
                   w_commitment, fold, rho, boundary, chain, proof, edit, verdict>>

\* serial_fft(a, &omega, log_n) on the coefficient buffer, omega a primitive
\* root of unity of order a.len()
SerialFft ==
    /\ pc = "Ready"
    /\ \E omega \in PrimitiveRoots(Len(operand)) :
           /\ argument' = omega
           /\ returned' = serial_fft(operand, omega, ShiftCount(Len(operand)))
    /\ pc' = "serial_fft"
    /\ UNCHANGED <<overflow_checks, operand, other, field, f_x, r, w_x,
                   w_commitment, fold, rho, boundary, chain, proof, edit, verdict>>

\* serial_ifft(a, &omega, log_n) on the transformed buffer
SerialIfft ==
    /\ pc = "serial_fft"
    /\ returned' = serial_ifft(returned, argument, ShiftCount(Len(operand)))
    /\ pc' = "serial_ifft"
    /\ UNCHANGED <<overflow_checks, operand, other, argument, field, f_x, r, w_x,
                   w_commitment, fold, rho, boundary, chain, proof, edit, verdict>>

\* self.pop_zeros()
PopZeros ==
    /\ pc = "Ready"
    /\ returned' = pop_zeros(operand)
    /\ pc' = "pop_zeros"
    /\ UNCHANGED <<overflow_checks, operand, other, argument, field, f_x, r, w_x,
                   w_commitment, fold, rho, boundary, chain, proof, edit, verdict>>

NextPoly ==
    \/ LongDivision \/ ShiftPolynomial \/ Multiply \/ DivideFft
    \/ EvalSingle \/ EvalAtNaive \/ SerialFft \/ SerialIfft \/ PopZeros

SpecPoly == InitPoly /\ [][NextPoly]_vars

(***************************************************************************)
(* plonk/proofs.rs: a product-check proof is verified.  Its five           *)
(* evaluations are built with Evaluation::new from the proof of one run of *)
(* evaluation_proof, or from that proof with its commitment replaced, and  *)
(* from claimed values of the verifier's choice.                           *)
(***************************************************************************)
Evaluation(eval, eval_proof) == [eval |-> eval, eval_proof |-> eval_proof]

\* Evaluation::check
check(e) ==
    LET res == verify(e.eval_proof)
    IN  IF res = "Abort" THEN "Abort"
        ELSE IF res = "ValidProof" THEN "ValidProof"
        ELSE "InvalidProof"

ProductCheckProof(end_eval, t_r, t_wr, q_r, f_wr) ==
    [end_eval |-> end_eval, t_r |-> t_r, t_wr |-> t_wr, q_r |-> q_r, f_wr |-> f_wr]

\* the five checks of ProductCheckProof::verify, in the order of the code
RECURSIVE CheckAll(_)
CheckAll(evals) ==
    IF evals = <<>> THEN "pass"
    ELSE IF check(Head(evals)) # "ValidProof" THEN check(Head(evals))
    ELSE CheckAll(Tail(evals))

\* ProductCheckProof::verify
product_check_verify(pcp) ==
    LET checks == CheckAll(<<pcp.end_eval, pcp.t_r, pcp.t_wr, pcp.q_r, pcp.f_wr>>)
        vp == ONE
        lhs == sub(pcp.t_wr.eval, mul(pcp.t_r.eval, pcp.f_wr.eval))
        rhs == mul(pcp.q_r.eval, vp)
    IN  IF checks # "pass" THEN checks
        ELSE IF pcp.end_eval.eval # ONE THEN "InvalidProof"
        ELSE IF lhs # rhs THEN "InvalidProof"
        ELSE "ValidProof"

\* the polynomials of the runs whose proofs the evaluations carry
PlonkPolys == {v \in PolysOfLen(4, 2) : v[1] = ONE /\ v[4] = ZERO}

EvalValues == {ZERO, ONE, from(2)}

\* at most one of the five evaluations carries the proof with another commitment
BadSets == {{}} \cup {{i} : i \in 1..5}

InitPlonk ==
    /\ field \in {Goldilocks, Fp}
    /\ pc = "Initial"
    /\ f_x \in PlonkPolys
    /\ r \in Points
    /\ w_x = None /\ w_commitment = None /\ fold = None /\ rho = None
    /\ boundary = None /\ chain = None /\ proof = None
    /\ edit = NoEdit /\ verdict = "none"
    /\ overflow_checks = TRUE
    /\ operand = None /\ other = None /\ argument = None /\ returned = None

\* ProductCheckProof::new(...).verify(); argument records the challenge point
\* and the size of the subgroup the proof is about
ProductCheckVerify ==
    /\ pc = "Packaged"
    /\ \E e \in [1..5 -> EvalValues], bad \in BadSets, x \in EvalValues :
         LET replaced == [proof EXCEPT !.w_com = OtherDigest(@)]
             ev(i) == Evaluation(e[i], IF i \in bad THEN replaced ELSE proof)
             pcp == ProductCheckProof(ev(1), ev(2), ev(3), ev(4), ev(5))
         IN  /\ operand' = pcp
             /\ argument' = [r |-> x, k |-> Len(f_x)]
             /\ verdict' = product_check_verify(pcp)
    /\ pc' = "product_check_verified"
    /\ UNCHANGED <<overflow_checks, other, returned,
                   field, f_x, r, w_x, w_commitment, fold, rho, boundary, chain,
                   proof, edit>>

NextPlonk == evaluation_proof \/ ProductCheckVerify

SpecPlonk == InitPlonk /\ [][NextPlonk]_vars

(***************************************************************************)
(* The domain layer, the challenge derivation and the byte conversion      *)
(* called by themselves: one call of one function.                         *)
(***************************************************************************)
Sizes == 0..(Pow2(MaxLogSize) + 1)

InitCalls ==
    /\ field \in {Goldilocks, Fp}
    /\ overflow_checks \in BOOLEAN
    /\ pc = "Ready"
    /\ operand = None /\ other = None /\ argument = None /\ returned = None
    /\ f_x = None /\ r = None /\ w_x = None
    /\ w_commitment = None /\ fold = None /\ rho = None
    /\ boundary = None /\ chain = None /\ proof = None
    /\ edit = NoEdit /\ verdict = "none"

\* Domain::new_for_size(size)
NewForSize ==
    /\ pc = "Ready"
    /\ \E size \in Sizes :
           /\ argument' = size
           /\ returned' = new_for_size(size)
    /\ pc' = "new_for_size"
    /\ UNCHANGED <<overflow_checks, operand, other, field, f_x, r, w_x,
                   w_commitment, fold, rho, boundary, chain, proof, edit, verdict>>

\* Domain::root_with_order_unchecked(order)
RootWithOrderUnchecked ==
    /\ pc = "Ready"
    /\ \E order \in Sizes :
           /\ argument' = order
           /\ returned' = root_with_order_unchecked(order)
    /\ pc' = "root_with_order_unchecked"
    /\ UNCHANGED <<overflow_checks, operand, other, field, f_x, r, w_x,
                   w_commitment, fold, rho, boundary, chain, proof, edit, verdict>>

\* the digests a challenge is derived from
SomeDigests == {HashLeaf(a, b) : a, b \in 0..MaxDigestPart}

\* com.interpret_as_root_of_unity(domain_size), domain_size a power of two <= 2^S
InterpretAsRootOfUnity ==
    /\ pc = "Ready"
    /\ \E com \in SomeDigests, k \in 0..S :
           /\ argument' = [digest |-> com, domain_size |-> Pow2(k)]
           /\ returned' = interpret_as_root_of_unity(com, Pow2(k))
    /\ pc' = "interpret_as_root_of_unity"
    /\ UNCHANGED <<overflow_checks, operand, other, field, f_x, r, w_x,
                   w_commitment, fold, rho, boundary, chain, proof, edit, verdict>>

\* the big-endian encoding of n in U256_BYTES bytes
RECURSIVE EncodingLoop(_, _)
EncodingLoop(n, len) ==
    IF len = 0 THEN <<>> ELSE EncodingLoop(n \div 256, len - 1) \o <<n % 256>>

Encoding(n) == EncodingLoop(n, U256_BYTES)

ByteValues == {0, 1, 2, 15, 128, 255}

ByteStrings ==
    {Vec(b) : b \in [1..U256_BYTES -> ByteValues]}
        \cup {Encoding(1), Encoding(MODULUS - 1), Encoding(MODULUS + 14)}

\* field_element_from_bytes(bytes)
FieldElementFromBytes ==
    /\ pc = "Ready"
    /\ \E bytes \in ByteStrings :
           /\ operand' = bytes
           /\ returned' = field_element_from_bytes(bytes)
    /\ pc' = "field_element_from_bytes"
    /\ UNCHANGED <<overflow_checks, other, argument, field, f_x, r, w_x,
                   w_commitment, fold, rho, boundary, chain, proof, edit, verdict>>

\* Polynomial::from_vec(vec![c]).commitment(), c any field element
CommitConstant ==
    /\ pc = "Ready"
    /\ \E c \in 0..(MODULUS - 1) :
           /\ operand' = <<c>>
           /\ returned' = commitment(<<c>>)
    /\ pc' = "commitment"
    /\ UNCHANGED <<overflow_checks, other, argument, field, f_x, r, w_x,
                   w_commitment, fold, rho, boundary, chain, proof, edit, verdict>>

\* query_check on a challenge without fold queries whose two boundary
\* evaluations are both c: the assembled value is c
QueryCheckConstant ==
    /\ pc = "commitment"
    /\ \E x \in {ONE, from(2), ROOT_OF_UNITY} :
           /\ argument' = x
           /\ other' = query_check(
                           FriChallenge(operand[1], operand[1], None, None,
                                        <<>>, <<>>, <<returned>>),
                           returned, x)
    /\ pc' = "query_check"
    /\ UNCHANGED <<overflow_checks, operand, returned, field, f_x, r, w_x,
                   w_commitment, fold, rho, boundary, chain, proof, edit, verdict>>

NextCalls ==
    \/ NewForSize \/ RootWithOrderUnchecked \/ InterpretAsRootOfUnity
    \/ FieldElementFromBytes \/ CommitConstant \/ QueryCheckConstant

SpecCalls == InitCalls /\ [][NextCalls]_vars

(***************************************************************************)
(* Properties of evaluation_proof and verify, stated over Spec.            *)
(***************************************************************************)
Honest == edit = NoEdit

IsLeafOf(ap, v) == v \in {ap.first_evaluation, ap.second_evaluation}

\* C1: for every non-zero polynomial of length 2^k, k in 1..MaxLogLen, and every
\* optional point r, evaluation_proof returns a proof without aborting and
\* verify returns ValidProof on that proof.
C1_Completeness ==
    /\ pc # "Aborted"
    /\ (pc = "Verified" /\ Honest) => verdict = "ValidProof"

WellShaped(pf) ==
    /\ Len(pf.fri_challenge.authentication_vector) = Len(pf.fri_challenge.fold_queries)
    /\ Len(pf.fri_challenge.commitment_vector)
           = Len(pf.fri_challenge.authentication_vector) + 1

\* the four groups of conditions the verdict is characterised by
Accepts(pf) ==
    LET ch == pf.fri_challenge
        L == Len(ch.authentication_vector)
        last == ch.commitment_vector[L + 1]
        query_root == interpret_as_root_of_unity(last, Pow2(L + 1 + FRI_BLOWUP_LOG))
        recomputed == query_check(ch, pf.w_com, query_root)
    IN  /\ IsLeafOf(ch.positive_authentication_path, ch.positive_evaluation)
        /\ IsLeafOf(ch.negative_authentication_path, ch.negative_evaluation)
        /\ \A i \in 1..L : IsLeafOf(ch.authentication_vector[i], ch.fold_queries[i])
        /\ derive_root(ch.positive_authentication_path) = pf.w_com
        /\ derive_root(ch.negative_authentication_path) = pf.w_com
        /\ \A i \in 1..L : derive_root(ch.authentication_vector[i]) = ch.commitment_vector[i]
        /\ recomputed.ok
        /\ recomputed.value = last

\* C3: on a proof whose authentication_vector and fold_queries have one length L
\* and whose commitment_vector has length L + 1, verify returns ValidProof exactly
\* when every evaluation is a leaf of its path, the boundary paths derive
\* w_commitment, path i derives commitment i and query_check reproduces the last
\* commitment; otherwise it returns InvalidProof.
C3_VerdictCharacterised ==
    (pc = "Verified" /\ WellShaped(proof))
        => verdict = (IF Accepts(proof) THEN "ValidProof" ELSE "InvalidProof")

\* a well-shaped proof other than the prover's that is refused
C3_Witness ==
    /\ pc = "Verified"
    /\ edit.kind = "drop_round"
    /\ WellShaped(proof)
    /\ ~Accepts(proof)
    /\ verdict = "InvalidProof"

\* C10: verify answers ValidProof or InvalidProof on every FriProof, whatever the
\* lengths of its vectors; it never aborts.
C10_VerifyNeverAborts ==
    pc = "Verified" => verdict \in {"ValidProof", "InvalidProof"}

(***************************************************************************)
(* Properties of the single steps, stated over SpecSemi.                   *)
(***************************************************************************)
\* C4: for every polynomial of power-of-two length n >= 2 and every r of the
\* blown-up domain, authentication_path_for returns a path whose leaf pair
\* contains p(r) and whose derived root is the commitment of p.
C4_PathAgreesWithCommitment ==
    pc = "Authenticated"
        => /\ boundary.ok
           /\ IsLeafOf(boundary.path, eval_single(w_x, rho))
           /\ derive_root(boundary.path) = w_commitment

\* C5: for every polynomial w of power-of-two length n >= 2 and every rho of the
\* blown-up domain, query_check on the evaluations w(rho), w(-rho) and the fold
\* queries polynomial_vector[i](-rho^(2^(i+1))) returns the last commitment of
\* fold_full.
C5_QueryCheckConsistent ==
    pc = "Checked"
        => /\ verdict.ok
           /\ verdict.value = fold.commitment_vector[Len(fold.commitment_vector)]

\* a check over a chain with two fold queries at a root of full order
C5_Witness ==
    /\ pc = "Checked"
    /\ Len(chain.query_vec) = 2
    /\ pow(rho, (FRI_BLOWUP_FACTOR * Len(w_x)) \div 2) # ONE
    /\ verdict.ok
    /\ chain.positive_evaluation # chain.negative_evaluation

\* C6: for w of length n = 2^k, k >= 1, fold_full returns k commitments and k
\* polynomials, polynomial i (from 0) has length n / 2^(i+1), commitment i is the
\* commitment of polynomial i, and the last polynomial is a constant.
C6_FoldShape ==
    (pc \in {"Folded", "Aborted"} /\ Len(w_x) >= 2)
        => /\ fold.ok
           /\ LET k == ShiftCount(Len(w_x))
                  cv == fold.commitment_vector
                  pv == fold.polynomial_vector
              IN  /\ Len(cv) = k
                  /\ Len(pv) = k
                  /\ \A i \in 1..k : Len(pv[i]) * Pow2(i) = Len(w_x)
                  /\ \A i \in 1..k : cv[i] = commitment(pv[i])
                  /\ Len(pv[k]) = 1

\* a fold of a polynomial of length 8
C6_Witness ==
    /\ pc = "Folded"
    /\ Len(w_x) = 8
    /\ Len(fold.polynomial_vector) = 3

\* the claimed fold of the pairs (c_2j, c_2j+1) with alpha
PairFold(p, alpha) ==
    [j \in 1..(Len(p) \div 2) |-> (p[2 * j - 1] + alpha * p[2 * j]) % MODULUS]

\* C7: the first layer of fold_full is the pair fold of w with alpha the commitment
\* of w reduced into the field, and layer i+1 is the pair fold of layer i with
\* alpha the reduced commitment i.
C7_FoldStep ==
    pc = "Folded"
        => LET cv == fold.commitment_vector
               pv == fold.polynomial_vector
           IN  /\ pv[1] = PairFold(w_x, interpret_as_element(w_commitment))
               /\ \A i \in 1..(Len(pv) - 1) :
                      pv[i + 1] = PairFold(pv[i], interpret_as_element(cv[i]))

\* a fold with three layers in which no layer is the zero polynomial
C7_Witness ==
    /\ pc = "Folded"
    /\ Len(fold.polynomial_vector) = 3
    /\ \A i \in 1..3 : Terms(fold.polynomial_vector[i]) > 0

\* the root of the hash tree over the leaves e_i = p(omega^i), i = 0..N-1
TreeOfEvaluations(p, omega) ==
    LET N == FRI_BLOWUP_FACTOR * Len(p)
        e == [i \in 1..N |-> eval_single(p, pow(omega, i - 1))]
    IN  CompressTimes(LeafHashes(e), ShiftCount(N) - 1)[1]

\* C8: the commitment of a polynomial of length n = 2^k is the root of the hash
\* tree over its evaluations at the powers of a primitive 8n-th root of unity.
C8_CommitmentOfTrueEvaluations ==
    pc = "Committed"
        => \E omega \in PrimitiveRoots(FRI_BLOWUP_FACTOR * Len(w_x)) :
               w_commitment = TreeOfEvaluations(w_x, omega)

\* bit l (from 0) of j
BitOf(j, l) == (j \div Pow2(l)) % 2

\* C11: for every polynomial p of power-of-two length n >= 2 and every
\* r = omega^i of the blown-up domain of size N = 8n, omega the generator of that
\* domain, authentication_path_for returns a path with log2(N) - 1 siblings whose
\* leaf pair is (e_2j, e_2j+1), e_k = p(omega^k), j = i div 2, and whose flags are
\* the bits of j from the least significant upward, also when the value p(r)
\* occurs at an earlier position.
C11_PathIsForPositionOfR ==
    pc = "Authenticated"
        => LET N == FRI_BLOWUP_FACTOR * Len(w_x)
               omega == root_with_order_unchecked(N)
           IN  \A i \in 0..(N - 1) :
                   pow(omega, i) = rho
                       => /\ boundary.ok
                          /\ LET j == i \div 2
                                 ap == boundary.path
                                 sib == ap.authentication_path
                             IN  /\ Len(sib) = ShiftCount(N) - 1
                                 /\ ap.first_evaluation
                                        = eval_single(w_x, pow(omega, 2 * j))
                                 /\ ap.second_evaluation
                                        = eval_single(w_x, pow(omega, 2 * j + 1))
                                 /\ \A l \in 1..Len(sib) :
                                        sib[l].is_first = (BitOf(j, l - 1) = 1)

\* digests to put in the place of a sibling: the other siblings of the path, its
\* leaf hash, the commitment, and a digest of each sibling
Digests(ap) ==
    {ap.authentication_path[l].hash : l \in 1..Len(ap.authentication_path)}
        \cup {OtherDigest(ap.authentication_path[l].hash) :
                  l \in 1..Len(ap.authentication_path)}
        \cup {HashLeaf(ap.first_evaluation, ap.second_evaluation), w_commitment}

\* C12: for every authentication path and every position in it, replacing the
\* sibling hash at that position by a different digest gives a different
\* derive_root (the hash being collision free).
C12_SiblingSensitive ==
    (pc = "Authenticated" /\ boundary.ok)
        => LET ap == boundary.path
           IN  \A l \in 1..Len(ap.authentication_path) :
                   \A d \in Digests(ap) :
                       d # ap.authentication_path[l].hash
                           => derive_root([ap EXCEPT !.authentication_path[l].hash = d])
                                  # derive_root(ap)

\* a path of five siblings, no two of them equal
C12_Witness ==
    /\ pc = "Authenticated"
    /\ boundary.ok
    /\ Len(boundary.path.authentication_path) = 5
    /\ Cardinality({boundary.path.authentication_path[l].hash : l \in 1..5}) = 5

(***************************************************************************)
(* Properties of the polynomial layer, stated over SpecPoly.  Polynomial   *)
(* arithmetic is written out coefficient by coefficient.                   *)
(***************************************************************************)
\* v without its trailing zero coefficients
RECURSIVE Trim(_)
Trim(v) == IF Len(v) > 0 /\ v[Len(v)] = 0 THEN Trim(SubSeq(v, 1, Len(v) - 1)) ELSE v

CoeffAt(v, k) == IF k \in 1..Len(v) THEN v[k] ELSE 0

\* sum over i = lo..hi of a_i * b_(k-i), indices from 1
RECURSIVE ConvSum(_, _, _, _)
ConvSum(u, v, k, i) ==
    IF i > Len(u) THEN 0
    ELSE (u[i] * CoeffAt(v, k - i + 1) + ConvSum(u, v, k, i + 1)) % MODULUS

\* the schoolbook product, of length Len(u) + Len(v) - 1
SchoolMul(u, v) ==
    IF Len(u) = 0 \/ Len(v) = 0 THEN <<>>
    ELSE Vec([k \in 1..(Len(u) + Len(v) - 1) |-> ConvSum(u, v, k, 1)])

PolyAdd(u, v) ==
    Vec([k \in 1..(IF Len(u) > Len(v) THEN Len(u) ELSE Len(v)) |->
            (CoeffAt(u, k) + CoeffAt(v, k)) % MODULUS])

\* sum over i of p_i * x^i
RECURSIVE PowerSum(_, _, _)
PowerSum(p, x, i) ==
    IF i > Len(p) THEN 0
    ELSE (p[i] * pow(x, i - 1) + PowerSum(p, x, i + 1)) % MODULUS

\* C13: for every polynomial p of power-of-two length, length 1 included, and
\* every field element r, shift_polynomial(p, r) returns w with
\* w(x) * (x - r) + p(r) = p(x) as polynomials.
C13_ShiftQuotientIdentity ==
    pc = "shift_polynomial"
        => /\ returned.ok
           /\ Trim(PolyAdd(SchoolMul(returned.quotient, <<neg(argument), ONE>>),
                           <<PowerSum(operand, argument, 1)>>))
                  = Trim(operand)

\* C14: for every dividend and every divisor with a non-zero coefficient whose
\* stripped length is at most the dividend's, long_division returns (q, rem) with
\* dividend = q * divisor + rem, rem shorter than the stripped divisor, and q of
\* power-of-two length.
C14_LongDivisionIdentity ==
    (pc = "long_division" /\ Trim(other) # <<>> /\ Len(operand) >= Len(Trim(other)))
        => /\ returned.ok
           /\ Trim(PolyAdd(SchoolMul(returned.quotient, Trim(other)),
                           returned.remainder))
                  = Trim(operand)
           /\ Len(returned.remainder) < Len(Trim(other))
           /\ is_power_of_two(Len(returned.quotient))

\* a division of a polynomial of degree 7 by one of degree 2 that leaves a
\* remainder of degree 1 and a quotient padded from 6 to 8 coefficients
C14_Witness ==
    /\ pc = "long_division"
    /\ Len(Trim(operand)) = 8
    /\ Len(Trim(other)) = 3
    /\ returned.ok
    /\ Len(returned.remainder) = 2
    /\ Len(returned.quotient) = 8

\* C15: when the dividend has fewer coefficients than the stripped divisor,
\* long_division returns normally, with an empty quotient.
C15_ShortDividend ==
    (pc = "long_division" /\ Len(operand) < Len(Trim(other)))
        => /\ returned.ok
           /\ returned.quotient = <<>>

\* C16: for all polynomials a, b of lengths 2^i and 2^j with i + j <= S, a * b has
\* length 2^(i+j) and its coefficients are those of the schoolbook product of a
\* and b, padded with zeros.
C16_MulIsSchoolbook ==
    (pc = "mul" /\ ShiftCount(Len(operand)) + ShiftCount(Len(other)) <= S)
        => /\ returned.ok
           /\ Len(returned.value) = Len(operand) * Len(other)
           /\ returned.value
                  = PolyAdd(SchoolMul(operand, other),
                            Repeat(0, Len(operand) * Len(other)))

\* C17: for every polynomial p of length >= 1, trailing zero coefficients
\* allowed, and every field element r, eval_single(p, r) is the sum over i of
\* p_i * r^i, and so is eval_at_naive(p, r).
C17_EvalIsPowerSum ==
    /\ pc = "eval_single" => returned = PowerSum(operand, argument, 1)
    /\ pc = "eval_at_naive"
           => /\ returned.ok
              /\ returned.value = PowerSum(operand, argument, 1)

\* an evaluation at 2 of a polynomial of length 8 with a trailing zero
C17_Witness ==
    /\ pc = "eval_single"
    /\ Len(operand) = 8
    /\ operand[8] = 0
    /\ Terms(operand) = 2
    /\ argument = from(2)
    /\ returned # 0

\* the 2-power roots of unity x with x^N = 1
RootsOfUnity(N) ==
    {x \in {pow(ROOT_OF_UNITY, e) : e \in 0..(Pow2(S) - 1)} : pow(x, N) = ONE}

\* C18: for every dividend a of power-of-two length n >= 2 and every divisor b
\* with len(b) <= n such that a = q * b exactly and b is non-zero at every point
\* of the transform domain, a.divide_fft(b) returns, without aborting, the
\* quotient q with trailing zeros stripped.
C18_DivideFftExact ==
    pc = "divide_fft"
        => LET n == Len(operand)
               exact == long_division(operand, other)
           IN  (/\ n >= 2
                /\ Len(other) <= n
                /\ Trim(other) # <<>>
                /\ exact.ok
                /\ exact.remainder = <<>>
                /\ Trim(SchoolMul(exact.quotient, Trim(other))) = Trim(operand)
                /\ \A x \in RootsOfUnity(next_power_of_two(n * ShiftCount(n))) :
                       PowerSum(other, x, 1) # 0)
                   => /\ returned.ok
                      /\ returned.value = Trim(exact.quotient)

\* sum over j of a_j * omega^(i*j), i and j from 0
RECURSIVE DftSum(_, _, _, _)
DftSum(v, omega, i, j) ==
    IF j >= Len(v) THEN 0
    ELSE (v[j + 1] * pow(omega, i * j) + DftSum(v, omega, i, j + 1)) % MODULUS

\* C19: for every buffer a of length n = 2^k, called with log_n = k and omega a
\* primitive n-th root of unity, serial_fft leaves
\* a[i] = sum over j of a_old[j] * omega^(i*j); the unit vector [1,0,...,0] of
\* length 8 becomes [1,1,1,1,1,1,1,1].
C19_FftIsDft ==
    pc = "serial_fft"
        => /\ Len(returned) = Len(operand)
           /\ \A i \in 0..(Len(operand) - 1) :
                  returned[i + 1] = DftSum(operand, argument, i, 0)
           /\ operand = <<1, 0, 0, 0, 0, 0, 0, 0>>
                  => returned = <<1, 1, 1, 1, 1, 1, 1, 1>>

\* the transform of a buffer of length 8 with two non-zero entries that is not
\* constant
C19_Witness ==
    /\ pc = "serial_fft"
    /\ Len(operand) = 8
    /\ Terms(operand) = 2
    /\ Cardinality({returned[i] : i \in 1..8}) = 8

\* C20: for every buffer a of power-of-two length n >= 1 and omega a primitive
\* n-th root of unity, serial_ifft after serial_fft, with the same omega and
\* log_n, restores a.
C20_FftRoundTrip ==
    pc = "serial_ifft" => returned = operand

\* a round trip of a buffer of length 8 with two non-zero entries
C20_Witness ==
    /\ pc = "serial_ifft"
    /\ Len(operand) = 8
    /\ Terms(operand) = 2
    /\ returned = operand

(***************************************************************************)
(* Properties of the domain layer, stated over SpecCalls.                  *)
(***************************************************************************)
\* log2 of the next power of two of a size
LogSize(size) == ShiftCount(next_power_of_two(size))

\* ROOT_OF_UNITY has order exactly 2^S
RootHasFullOrder ==
    /\ pow(ROOT_OF_UNITY, Pow2(S)) = ONE
    /\ pow(ROOT_OF_UNITY, Pow2(S - 1)) # ONE

C22_UncheckedAgreesWithDomain ==
    (pc = "root_with_order_unchecked" /\ LogSize(argument) <= S)
    => /\ new_for_size(argument).ok
       /\ returned = new_for_size(argument).generator
       /\ returned = SquareTimes(ROOT_OF_UNITY, S - LogSize(argument))

C24_QueryRootInDomain ==
    pc = "interpret_as_root_of_unity"
    => LET N == argument.domain_size
           e == HashInt(argument.digest) % 256
       IN  /\ \E g \in PrimitiveRoots(N) : returned = pow(g, e)
           /\ pow(returned, N) = ONE

\* the integer a byte string denotes, most significant byte first
RECURSIVE IntegerOf(_, _, _)
IntegerOf(b, i, acc) ==
    IF i > Len(b) THEN acc ELSE IntegerOf(b, i + 1, 256 * acc + b[i])

\* C25: for every byte string b of the width of a U256,
\* field_element_from_bytes(b) is (b read as a big-endian integer) mod p; the
\* encoding of 1 gives ONE, of p - 1 gives -ONE, and of p + 14 gives 14.
C25_BytesToFieldElement ==
    pc = "field_element_from_bytes"
    => /\ returned = [ok |-> TRUE, value |-> IntegerOf(operand, 1, 0) % MODULUS]
       /\ operand = Encoding(1) => returned.value = ONE
       /\ operand = Encoding(MODULUS - 1) => returned.value = neg(ONE)
       /\ operand = Encoding(MODULUS + 14) => returned.value = from(14)

\* the encoding of p + 14 was converted and wrapped around to 14
C25_Witness ==
    /\ pc = "field_element_from_bytes"
    /\ operand = Encoding(MODULUS + 14)
    /\ IntegerOf(operand, 1, 0) = MODULUS + 14
    /\ returned = [ok |-> TRUE, value |-> 14]

(***************************************************************************)
(* Properties of the product check, stated over SpecPlonk.                 *)
(***************************************************************************)
\* C26: ProductCheckProof::verify returns ValidProof if and only if all five
\* evaluation proofs verify, the end evaluation equals 1, and
\* t(w*r) - t(r) * f(w*r) = q(r) * (r^k - 1), k the subgroup size and r the
\* challenge point.
C26_ProductCheckAcceptance ==
    pc = "product_check_verified"
    => LET pcp == operand
           all == <<pcp.end_eval, pcp.t_r, pcp.t_wr, pcp.q_r, pcp.f_wr>>
           vanishing == sub(pow(argument.r, argument.k), ONE)
       IN  (verdict = "ValidProof")
           <=> /\ \A i \in 1..5 : verify(all[i].eval_proof) = "ValidProof"
               /\ pcp.end_eval.eval = ONE
               /\ sub(pcp.t_wr.eval, mul(pcp.t_r.eval, pcp.f_wr.eval))
                      = mul(pcp.q_r.eval, vanishing)

(***************************************************************************)
(* Properties of verify on proofs of any shape, stated over Spec.          *)
(***************************************************************************)
\* C27: whatever the lengths of the proof's vectors, verify returns ValidProof
\* only if every fold query that enters the fold recomputation is a leaf value
\* of the authentication path of its round and that path derives the round's
\* commitment; no proof with fewer authentication paths than fold queries is
\* accepted.
C27_FoldQueriesAuthenticated ==
    (pc = "Verified" /\ verdict = "ValidProof")
    => LET ch == proof.fri_challenge
       IN  /\ Len(ch.authentication_vector) >= Len(ch.fold_queries)
           /\ \A i \in 1..Len(ch.fold_queries) :
                /\ i <= Len(ch.authentication_vector)
                /\ i <= Len(ch.commitment_vector)
                /\ IsLeafOf(ch.authentication_vector[i], ch.fold_queries[i])
                /\ derive_root(ch.authentication_vector[i]) = ch.commitment_vector[i]

(***************************************************************************)
(* The constant layer, stated over SpecCalls.                              *)
(***************************************************************************)
\* C28: for every field element c, the digest query_check builds from the final
\* assembled value c (four leaf hashes H(c || c) compressed pairwise through
\* two levels) equals the commitment of the length-1 polynomial [c].
C28_FinalTreeMatchesCommitment ==
    pc = "query_check"
    => LET c == operand[1]
           leaf == HashLeaf(c, c)
           node == HashNode(leaf, leaf)
       IN  /\ other.ok
           /\ other.value = HashNode(node, node)
           /\ other.value = returned

\* the tree of a non-zero constant was built and compared
C28_Witness ==
    /\ pc = "query_check"
    /\ operand = <<from(5)>>
    /\ returned = commitment(<<from(5)>>)
    /\ other.ok /\ other.value = returned

(***************************************************************************)
(* The order of the prover's phases, stated over SpecProver.               *)
(***************************************************************************)
PhaseOrder ==
    <<"Initial", "Shifted", "Folded", "QueriedBoundary", "QueriedChain", "Packaged">>

\* a step of the run moves to the next phase
PhaseStep ==
    Len(f_x) >= 4
    => \E i \in 1..(Len(PhaseOrder) - 1) : pc = PhaseOrder[i] /\ pc' = PhaseOrder[i + 1]

\* the run is in one of the phases, so it has not stopped short of Packaged
InPhase == \E i \in 1..Len(PhaseOrder) : pc = PhaseOrder[i]

\* until the commitment chain has been produced there is no query root and no
\* answered query, and once it has there is a chain of at least one commitment
QueriesAfterChain ==
    /\ pc \in {"Initial", "Shifted"}
           => (fold = None /\ rho = None /\ boundary = None /\ chain = None)
    /\ pc = "Folded"
           => /\ Len(fold.commitment_vector) >= 1
              /\ rho = None /\ boundary = None /\ chain = None
    /\ pc = "QueriedBoundary" => chain = None

\* C29: every run of evaluation_proof on a polynomial of power-of-two length
\* >= 4 passes through Initial, Shifted, Folded, QueriedBoundary, QueriedChain,
\* Packaged in this order, each once and never going back, and stops only in
\* Packaged; the query root is derived after the whole commitment chain, and no
\* boundary or chain query is answered before that.
C29_ProverPhaseOrder ==
    /\ [][PhaseStep]_vars
    /\ [](Len(f_x) >= 4 => (InPhase /\ QueriesAfterChain))

(***************************************************************************)
(* Normalisation, stated over SpecPoly.                                    *)
(***************************************************************************)
\* C30: for every polynomial, the all-zero ones included, pop_zeros terminates,
\* and afterwards the length is a power of two >= 1 and the polynomial has the
\* same value as before at every point.
C30_PopZerosNormalises ==
    pc = "pop_zeros"
    => /\ returned.ok
       /\ Len(returned.value) >= 1
       /\ is_power_of_two(Len(returned.value))
       /\ \A x \in 0..(MODULUS - 1) :
              PowerSum(returned.value, x, 1) = PowerSum(operand, x, 1)

====
